---- MODULE Spec2Model ----
(***************************************************************************)
(* A model of forust's preprocessing core: weighted percentiles and the    *)
(* binary search of utils.rs, the quantile binning of binning.rs and the   *)
(* GOSS row sampler of sampler.rs.                                         *)
(*                                                                         *)
(* Numbers.  A float is modelled by an integer of a miniature float type:  *)
(* the finite values are 1..FMAX (FMAX stands for T::MAX), PosInf is the   *)
(* infinity above them and NaN is the value no comparison holds for.       *)
(* Fractions (percentiles, GOSS rates, uniform draws, running cumulative   *)
(* weight) are exact rationals [n, d]; rounding of f64 sums is not         *)
(* modelled.  Sequences are 1-based where the source is 0-based, so a bin  *)
(* index, which is a count, keeps its source value.                        *)
(***************************************************************************)
EXTENDS Integers, Sequences, FiniteSets, TLC

VARIABLES data, binned, v, sample_weights, percentiles, pct_out,
          sampler, index, grad, hess, grad0, hess0, sample_out

vars == <<data, binned, v, sample_weights, percentiles, pct_out,
          sampler, index, grad, hess, grad0, hess0, sample_out>>

binVars == <<data, binned>>
pctVars == <<v, sample_weights, percentiles, pct_out>>
gossVars == <<sampler, index, grad, hess, grad0, hess0, sample_out>>

(***************************************************************************)
(* Bounds of the model.                                                    *)
(***************************************************************************)
MaxCells == 4
MaxBins == 2
MaxWeight == 1
MaxLen == 3
MaxPcts == 2
PctDen == 4
MaxPctWeight == 2
NRows == 2
MaxGrad == 1
GDen == 2

(***************************************************************************)
(* The float type.                                                         *)
(***************************************************************************)
FMAX == 4
PosInf == FMAX + 1
NaN == FMAX + 2

Finite == 1..FMAX
Floats == Finite \cup {PosInf, NaN}

is_nan(x) == x = NaN
IsFinite(x) == x \in Finite

\* PartialOrd on floats: every comparison with NaN is false.
Le(x, y) == x # NaN /\ y # NaN /\ x <= y
Lt(x, y) == x # NaN /\ y # NaN /\ x < y

Frac(n, d) == [n |-> n, d |-> d]

(***************************************************************************)
(* Helpers on sequences.                                                   *)
(***************************************************************************)
RECURSIVE SumSeq(_)
SumSeq(s) == IF s = <<>> THEN 0 ELSE Head(s) + SumSeq(Tail(s))

SeqsUpTo(S, n) == UNION {[1..k -> S] : k \in 0..n}

Range(s) == {s[i] : i \in DOMAIN s}

\* Vec::dedup: drops every element equal to the one before it.
RECURSIVE dedup(_)
dedup(s) ==
    IF Len(s) <= 1 THEN s
    ELSE LET r == dedup(SubSeq(s, 1, Len(s) - 1))
         IN  IF s[Len(s)] = r[Len(r)] THEN r ELSE Append(r, s[Len(s)])

\* sort_unstable_by(partial_cmp) on values without NaN.
SortValues(s) == SortSeq(s, LAMBDA a, b : a < b)

\* The orders sort_unstable_by may leave the positions of `key` in: every
\* permutation along which key is non-decreasing (ties in any order).
RECURSIVE SortedOrders(_, _)
SortedOrders(key, left) ==
    IF left = {} THEN {<<>>}
    ELSE LET least == {i \in left : \A j \in left : key[i] <= key[j]}
         IN  UNION {{<<i>> \o rest : rest \in SortedOrders(key, left \ {i})} : i \in least}

(***************************************************************************)
(* utils.rs                                                                *)
(***************************************************************************)
\* One pass of the loop body of percentiles_nunique over the sorted position
\* k of idx.  st.j is the position of current_pct in percentiles, st.cum the
\* weight accumulated so far (pct_cnt = cum / total).
pn_step(vv, w, pcts, total, i, st) ==
    LET changed == st.cur # vv[i]
        nu == IF changed THEN st.nunique + 1 ELSE st.nunique
        cur == IF changed THEN vv[i] ELSE st.cur
        cum == st.cum + w[i]
        hit == ~st.drained /\ (pcts[st.j].n = 0 \/ cum * pcts[st.j].d >= pcts[st.j].n * total)
    IN  [j |-> IF hit /\ st.j < Len(pcts) THEN st.j + 1 ELSE st.j,
         drained |-> IF hit THEN st.j >= Len(pcts) ELSE st.drained,
         p |-> IF hit THEN Append(st.p, cur) ELSE st.p,
         cum |-> cum,
         nunique |-> nu,
         cur |-> cur]

RECURSIVE pn_loop(_, _, _, _, _, _, _)
pn_loop(vv, w, pcts, total, idx, k, st) ==
    IF k > Len(idx) THEN st
    ELSE pn_loop(vv, w, pcts, total, idx, k + 1, pn_step(vv, w, pcts, total, idx[k], st))

\* percentiles_nunique(v, sample_weights, percentiles) for the order idx the
\* sort left the positions in.  "panic" stands for the expect() on an empty
\* percentile list and for the index v[idx[0]] of an empty v.
percentiles_nunique(vv, w, pcts, idx) ==
    IF pcts = <<>> \/ vv = <<>> THEN [status |-> "panic", p |-> <<>>, nunique |-> 0]
    ELSE LET st0 == [j |-> 1, drained |-> FALSE, p |-> <<>>, cum |-> 0,
                     nunique |-> 1, cur |-> vv[idx[1]]]
             st == pn_loop(vv, w, pcts, SumSeq(w), idx, 1, st0)
         IN  [status |-> "ok", p |-> st.p, nunique |-> st.nunique]

first_greater_than_lt(x, val) ==
    LET RECURSIVE loop(_, _)
        loop(low, high) ==
            IF low = high THEN low
            ELSE LET mid == (low + high) \div 2
                 IN  IF Lt(x[mid + 1], val) THEN loop(mid + 1, high) ELSE loop(low, mid)
    IN  loop(0, Len(x))

\* The binary search: low and high are the source's 0-based positions.
first_greater_than(x, val) ==
    LET RECURSIVE loop(_, _)
        loop(low, high) ==
            IF low = high THEN low
            ELSE LET mid == (low + high) \div 2
                 IN  IF Le(x[mid + 1], val) THEN loop(mid + 1, high) ELSE loop(low, mid)
    IN  loop(0, Len(x))

(***************************************************************************)
(* binning.rs                                                              *)
(***************************************************************************)
\* Matrix::get_col: the column-major slice of column c (1-based).
get_col(m, c) == SubSeq(m.data, (c - 1) * m.rows + 1, c * m.rows)

\* binning.rs calls utils::map_bin and utils::percentiles; utils.rs holds
\* them as first_greater_than and percentiles_nunique.
map_bin(x, val) == first_greater_than(x, val)

\* The cut tables percentiles_or_value may return, one per order the sort of
\* percentiles may leave tied rows in.
percentiles_or_value(vv, sample_weight, pcts) ==
    LET v_u == dedup(SortValues(vv))
    IN  IF Len(v_u) <= Len(pcts) + 1 THEN {v_u}
        ELSE {percentiles_nunique(vv, sample_weight, pcts, idx).p :
                 idx \in SortedOrders(vv, DOMAIN vv)}

\* pcts of bin_matrix: i / nbins for i in 0..nbins.
bin_pcts(nbins) == [i \in 1..nbins |-> Frac(i - 1, nbins)]

no_miss(m, c) == SelectSeq(get_col(m, c), LAMBDA x : ~is_nan(x))

\* col_cuts after push(T::MAX) and dedup.
column_cuts(m, sample_weight, nbins, c) ==
    {dedup(Append(pv, FMAX)) :
        pv \in percentiles_or_value(no_miss(m, c), sample_weight, bin_pcts(nbins))}

col_rejected_lt2(col_cuts) == Len(col_cuts) < 2

\* The NoVariance test of bin_matrix.
col_rejected(col_cuts) == Len(col_cuts) < 3

col_nunique_less1(col_cuts) == Len(col_cuts) - 1

\* What bin_matrix pushes to nunique.
col_nunique(col_cuts) == Len(col_cuts)

bin_matrix_from_cuts_rowmajor(m, cuts) ==
    [i \in 1..Len(m.data) |-> map_bin(cuts[((i - 1) % m.cols) + 1], m.data[i])]

\* col = i / data.rows, for the 0-based offset i of the entry.
bin_matrix_from_cuts(m, cuts) ==
    [i \in 1..Len(m.data) |-> map_bin(cuts[((i - 1) \div m.rows) + 1], m.data[i])]

NoVariance == [status |-> "NoVariance", binned_data |-> <<>>, cuts |-> <<>>, nunique |-> <<>>]

\* bin_matrix for the cut tables cs the columns got: the first column whose
\* table is too short ends the call with the error.
bin_matrix(m, cs) ==
    IF \E c \in 1..m.cols : col_rejected(cs[c]) THEN NoVariance
    ELSE [status |-> "Ok",
          binned_data |-> bin_matrix_from_cuts(m, cs),
          cuts |-> cs,
          nunique |-> [c \in 1..m.cols |-> col_nunique(cs[c])]]

NoCall == [status |-> "none", binned_data |-> <<>>, cuts |-> <<>>, nunique |-> <<>>]

Shapes == {s \in (1..MaxCells) \X (1..MaxCells) : s[1] * s[2] <= MaxCells}

Matrices == UNION {{[data |-> d, rows |-> s[1], cols |-> s[2]] :
                        d \in [1..(s[1] * s[2]) -> Floats]} : s \in Shapes}

\* The values the variables of a part the behaviour does not exercise keep.
PctIdle == /\ v = <<>> /\ sample_weights = <<>> /\ percentiles = <<>>
           /\ pct_out = [status |-> "idle", p |-> <<>>, nunique |-> 0]
GossIdle == /\ sampler = [status |-> "idle", a |-> Frac(0, 1), b |-> Frac(0, 1)]
            /\ index = <<>> /\ grad = <<>> /\ hess = <<>>
            /\ grad0 = <<>> /\ hess0 = <<>>
            /\ sample_out = [status |-> "idle", chosen |-> <<>>, excluded |-> <<>>,
                             sorted |-> <<>>, draws |-> <<>>, randomSet |-> <<>>]
BinIdle == /\ data = [data |-> <<>>, rows |-> 0, cols |-> 0]
           /\ binned = [status |-> "idle", binned_data |-> <<>>, cuts |-> <<>>, nunique |-> <<>>]

InitBin == data \in Matrices /\ binned = NoCall /\ PctIdle /\ GossIdle

\* The cut tables of columns 1..c, one choice per column.
RECURSIVE cut_tables(_, _, _, _)
cut_tables(m, sample_weight, nbins, c) ==
    IF c = 0 THEN {<<>>}
    ELSE {Append(pre, cc) : pre \in cut_tables(m, sample_weight, nbins, c - 1),
                            cc \in column_cuts(m, sample_weight, nbins, c)}

BinMatrix ==
    /\ binned.status = "none"
    /\ \E nbins \in 1..MaxBins, sample_weight \in [1..data.rows -> 1..MaxWeight] :
       \E cs \in cut_tables(data, sample_weight, nbins, data.cols) :
          binned' = bin_matrix(data, cs)
    /\ UNCHANGED <<data, pctVars, gossVars>>

NextBin == BinMatrix

SpecBin == InitBin /\ [][NextBin]_vars

(***************************************************************************)
(* Claims on bin_matrix (SpecBin).                                         *)
(***************************************************************************)
Cell(c, r) == data.data[(c - 1) * data.rows + r]
Bin(c, r) == binned.binned_data[(c - 1) * data.rows + r]
Cols == 1..data.cols
Rows == 1..data.rows
Called == binned.status \in {"Ok", "NoVariance"}
IsOk == binned.status = "Ok"

\* cuts[k] of the claims, which count the cuts from 0.
Cut0(c, k) == binned.cuts[c][k + 1]

StrictlyIncreasing(s) == \A i \in 1..(Len(s) - 1) : s[i] < s[i + 1]

NoMissing == \A i \in DOMAIN data.data : IsFinite(data.data[i])

\* The interval half of C1 alone, on matrices of finite values.
C1_IntervalOnly ==
    (IsOk /\ NoMissing) =>
        \A c \in Cols, r \in Rows :
            Bin(c, r) >= 1 => Le(Cell(c, r), Cut0(c, Bin(c, r) - 1))

FiniteValues(c) == {Cell(c, r) : r \in {q \in Rows : IsFinite(Cell(c, q))}}
NonNanValues(c) == {Cell(c, r) : r \in {q \in Rows : ~is_nan(Cell(c, q))}}

C10_CutTable ==
    IsOk => \A c \in Cols :
        LET cuts == binned.cuts[c]
        IN  /\ StrictlyIncreasing(cuts)
            /\ Len(cuts) >= 3
            /\ cuts[Len(cuts)] = FMAX
            /\ \A i \in DOMAIN cuts : cuts[i] <= cuts[Len(cuts)]
            /\ \A r \in Rows : IsFinite(Cell(c, r)) => Cell(c, r) <= cuts[Len(cuts)]

(***************************************************************************)
(* percentiles_nunique on its own (SpecPct).                               *)
(***************************************************************************)
PctFracs == {Frac(k, PctDen) : k \in 0..PctDen}

\* "values from 0 to 1, and in sorted order"
SortedFracs(s) == \A i \in 1..(Len(s) - 1) : s[i].n <= s[i + 1].n
StrictFracs(s) == \A i \in 1..(Len(s) - 1) : s[i].n < s[i + 1].n

PctNone == [status |-> "none", p |-> <<>>, nunique |-> 0]

InitPct ==
    /\ v \in SeqsUpTo(Finite, MaxLen)
    /\ sample_weights \in [1..Len(v) -> 1..MaxPctWeight]
    /\ percentiles \in {s \in SeqsUpTo(PctFracs, MaxPcts) : SortedFracs(s)}
    /\ pct_out = PctNone
    /\ BinIdle /\ GossIdle

PercentilesNunique ==
    /\ pct_out.status = "none"
    /\ \E idx \in SortedOrders(v, DOMAIN v) :
          pct_out' = percentiles_nunique(v, sample_weights, percentiles, idx)
    /\ UNCHANGED <<v, sample_weights, percentiles, binVars, gossVars>>

NextPct == PercentilesNunique

SpecPct == InitPct /\ [][NextPct]_vars

\* The number of rows of v with a value <= x.
CountLe(x) == Cardinality({i \in DOMAIN v : v[i] <= x})

\* The values x of v with CountLe(x) / len(v) >= f.
Reaching(f) == {x \in Range(v) : CountLe(x) * f.d >= f.n * Len(v)}

\* C3: with all weights 1, the boundary returned for fraction f is the
\* smallest value x of v with (rows of value <= x) / (rows) >= f.  Stated
\* for strictly ascending fractions, the narrowest reading of "sorted".
C3_Inversion ==
    (/\ pct_out.status = "ok"
     /\ StrictFracs(percentiles)
     /\ \A i \in DOMAIN sample_weights : sample_weights[i] = 1) =>
        \A j \in DOMAIN pct_out.p :
            /\ pct_out.p[j] \in Reaching(percentiles[j])
            /\ \A x \in Reaching(percentiles[j]) : pct_out.p[j] <= x

\* C4: for a non-empty v, positive weights and a non-empty sorted list of
\* fractions, one boundary is returned per fraction.  Stated for strictly
\* ascending fractions, the narrowest reading of "sorted".
C4_OnePerFraction ==
    (pct_out.status \in {"ok", "panic"} /\ v # <<>> /\ percentiles # <<>> /\ StrictFracs(percentiles)) =>
        /\ pct_out.status = "ok"
        /\ Len(pct_out.p) = Len(percentiles)

(***************************************************************************)
(* sampler.rs: GossSampler (SpecGoss).  Row ids and positions are 1-based. *)
(***************************************************************************)
Abs(x) == IF x < 0 THEN 0 - x ELSE x

\* floor(f * n), the `as usize` of a non-negative product.
FloorMul(f, n) == (f.n * n) \div f.d

\* x * f on rationals; a denominator of 0 is a non-finite float.
Mul(x, f) == [n |-> x.n * f.n, d |-> x.d * f.d]

NonFinite(x) == x.d = 0

Panic == 0 - 1

usize_div_or_zero(x, y) == IF y = 0 THEN 0 ELSE x \div y

\* Division of usize: panics on a zero divisor.
usize_div(x, y) == IF y = 0 THEN Panic ELSE x \div y

\* fact = ((1. - self.a) / self.b) as f32
goss_fact(a, b) == Frac((a.d - a.n) * b.d, a.d * b.n)

InUnit(f) == 0 <= f.n /\ f.n <= f.d

SamplerNone == [status |-> "none", a |-> Frac(0, 1), b |-> Frac(0, 1)]

\* GossSampler::new: panics unless a and b are in [0, 1].
New(a, b) ==
    /\ sampler.status = "none"
    /\ sampler' = IF InUnit(a) /\ InUnit(b)
                  THEN [status |-> "ok", a |-> a, b |-> b]
                  ELSE [status |-> "panic", a |-> Frac(0, 1), b |-> Frac(0, 1)]
    /\ UNCHANGED <<index, grad, hess, grad0, hess0, sample_out, binVars, pctVars>>

\* GossSampler::default
Default ==
    /\ sampler.status = "none"
    /\ sampler' = [status |-> "ok", a |-> Frac(2, 10), b |-> Frac(1, 10)]
    /\ UNCHANGED <<index, grad, hess, grad0, hess0, sample_out, binVars, pctVars>>

\* The uniform draws of rng.gen_range(0.0..1.0) the model takes.
Draws == {Frac(0, 1), Frac(1, 2)}

SampleNone == [status |-> "none", chosen |-> <<>>, excluded |-> <<>>,
               sorted |-> <<>>, draws |-> <<>>, randomSet |-> <<>>]

\* The order the sort by descending |grad| leaves the positions 0..index.len() in.
goss_sorted(g, n) == SortedOrders([i \in 1..n |-> 0 - Abs(g[i].n)], 1..n)

\* The positions the loop over sorted[topN..] pushes to randomSet.
goss_randomSet(sorted, topN, subsample, draws) ==
    LET rest == Len(sorted) - topN
        picks == SelectSeq([k \in 1..rest |-> k],
                           LAMBDA k : draws[k].n < subsample * draws[k].d)
    IN  [j \in 1..Len(picks) |-> sorted[topN + picks[j]]]

\* GossSampler::sample
Sample ==
    /\ sampler.status = "ok"
    /\ sample_out.status = "none"
    /\ LET N == Len(index)
           fact == goss_fact(sampler.a, sampler.b)
           topN == FloorMul(sampler.a, N)
           randN == FloorMul(sampler.b, N)
           subsample == usize_div(randN, N - topN)
       IN  \E sorted \in goss_sorted(grad, N) :
             IF subsample = Panic
             THEN /\ sample_out' = [SampleNone EXCEPT !.status = "panic", !.sorted = sorted]
                  /\ UNCHANGED <<grad, hess>>
             ELSE \E draws \in [1..(N - topN) -> Draws] :
                    LET randomSet == goss_randomSet(sorted, topN, subsample, draws)
                        scaled == Range(randomSet)
                    IN  /\ grad' = [i \in DOMAIN grad |->
                                      IF i \in scaled THEN Mul(grad[i], fact) ELSE grad[i]]
                        /\ hess' = [i \in DOMAIN hess |->
                                      IF i \in scaled THEN Mul(hess[i], fact) ELSE hess[i]]
                        /\ sample_out' = [status |-> "Ok",
                                          chosen |-> SubSeq(sorted, 1, topN) \o randomSet,
                                          excluded |-> <<>>,
                                          sorted |-> sorted,
                                          draws |-> draws,
                                          randomSet |-> randomSet]
    /\ UNCHANGED <<sampler, index, grad0, hess0, binVars, pctVars>>

\* The eligible row ids: the subsets of the rows, in ascending order.
IndexSlices == {s \in SeqsUpTo(1..NRows, NRows) : \A i \in 1..(Len(s) - 1) : s[i] < s[i + 1]}

InitGoss ==
    /\ sampler = SamplerNone
    /\ index \in IndexSlices
    /\ grad0 \in [1..NRows -> {Frac(g, 1) : g \in (0 - MaxGrad)..MaxGrad}]
    /\ hess0 \in [1..NRows -> {Frac(h, 1) : h \in 1..MaxGrad}]
    /\ grad = grad0
    /\ hess = hess0
    /\ sample_out = SampleNone
    /\ BinIdle /\ PctIdle

NextGoss ==
    \/ \E an \in (0 - 1)..(GDen + 1), bn \in (0 - 1)..(GDen + 1) : New(Frac(an, GDen), Frac(bn, GDen))
    \/ Default
    \/ Sample

SpecGoss == InitGoss /\ [][NextGoss]_vars

(***************************************************************************)
(* Claims on GossSampler::sample.                                          *)
(***************************************************************************)
GN == Len(index)
GTopN == FloorMul(sampler.a, GN)
GRandN == FloorMul(sampler.b, GN)
Sampled == sample_out.status \in {"Ok", "panic"}

\* The eligible rows that are among the GTopN largest |grad[row]| however
\* ties are broken.
SureTop == {r \in Range(index) :
               Cardinality({q \in Range(index) : Abs(grad0[q].n) >= Abs(grad0[r].n)}) <= GTopN}

\* C6: for any eligible index with N - floor(a*N) > 0, chosen has
\* floor(a*N) + |random-retained| elements, each a member of index, and the
\* floor(a*N) eligible rows of largest |grad[row]| are in chosen.
C6_Chosen ==
    sample_out.status = "Ok" =>
        /\ Len(sample_out.chosen) = GTopN + Len(sample_out.randomSet)
        /\ Range(sample_out.chosen) \subseteq Range(index)
        /\ SureTop \subseteq Range(sample_out.chosen)

\* C7: a row outside the top floor(a*N) is retained exactly when its draw
\* u < floor(b*N) / (N - floor(a*N)), the ratio a real number.
C7_RetainProbability ==
    sample_out.status = "Ok" =>
        \A k \in 1..(GN - GTopN) :
            (sample_out.sorted[GTopN + k] \in Range(sample_out.randomSet))
              <=> (sample_out.draws[k].n * (GN - GTopN) < GRandN * sample_out.draws[k].d)

\* C9: in the degenerate case N - floor(a*N) = 0 sample fails and leaves
\* grad and hess as they were; no call multiplies an entry of grad or hess
\* by a non-finite factor.
C9_Degenerate ==
    Sampled =>
        /\ GN - GTopN = 0 => /\ sample_out.status = "panic"
                             /\ grad = grad0 /\ hess = hess0
        /\ sample_out.randomSet # <<>> => ~NonFinite(goss_fact(sampler.a, sampler.b))
        /\ \A i \in DOMAIN grad : ~NonFinite(grad[i]) /\ ~NonFinite(hess[i])

\* A failed call on a non-empty index with a = 1, and its buffers intact.
C9_Witness ==
    /\ sample_out.status = "panic"
    /\ GN > 0 /\ GN - GTopN = 0
    /\ grad = grad0 /\ hess = hess0

\* A call with b = 0, where fact is non-finite, that returned.
C9_WitnessNonFinite ==
    /\ sample_out.status = "Ok"
    /\ NonFinite(goss_fact(sampler.a, sampler.b))
    /\ GN > 0

(***************************************************************************)
(* The three parts together.                                               *)
(***************************************************************************)
Init == InitBin \/ InitPct \/ InitGoss

Next == NextBin \/ NextPct \/ NextGoss

Spec == Init /\ [][Next]_vars

====
